---------------------------- MODULE Spec2Model ----------------------------
(***************************************************************************)
(* A model of the scalar reverse-mode autograd engine of micrograd-rs      *)
(* (src/src/engine.rs) and of the training-step pattern of its driver      *)
(* (src/src/main.rs).                                                      *)
(*                                                                         *)
(* A Value is a reference to a shared InnerValue.  The model keeps every   *)
(* InnerValue ever allocated in the sequence `heap`; a Value is the index  *)
(* of its InnerValue, so reference identity (Rc::ptr_eq) is equality of    *)
(* indices.  f64 numbers are modelled by the integers of magnitude at most *)
(* MaxAbs, on which f64 arithmetic is exact; an operation whose result     *)
(* leaves that range (or is not an integer) is not taken.                  *)
(***************************************************************************)
EXTENDS Integers, Sequences, FiniteSets

VARIABLES heap,     \* Seq of InnerValue: [data, grad, prev, op]
          powArg,   \* per node: the exponent handed to pow (0 for other nodes);
                    \* the code does not store it, the model records the call
          last,     \* record of the last operation performed
          calls,    \* number of operations performed so far
          params,   \* the leaves a training loop retains (mlp.parameters())
          pc        \* position in the training loop ("free" outside one) and
                    \* the number of nodes allocated before its current iteration

vars == <<heap, powArg, last, calls, params, pc>>

(***************************************************************************)
(* Bounds of the model: the number of operations of a run, the number of   *)
(* nodes a run allocates (MaxDerivedNodes where the derived operators,     *)
(* which allocate up to three nodes each, are exercised), and the          *)
(* magnitude of the numbers.  MaxTrainNodes bounds the nodes the iterations *)
(* of a training loop allocate together.                                   *)
(***************************************************************************)
MaxCalls == 5
MaxNodes == 3
MaxDerivedNodes == 5
MaxTrainNodes == 4
MaxAbs == 16

\* The f64 arguments the operations are called with: the data of new leaves
\* (of one sign, and of either sign), the scalar operands, the exponents, and
\* the values written by set_grad and set_data; and the data of the retained
\* leaves of a training loop.
LeafData == {2, 3}
SignedData == {-1, 0, 2}
TrainData == {-1, 1, 2}
Scalars == {4}
Exponents == {2, 3}
GradVals == {5}
DataVals == {3}

Abs(x) == IF x < 0 THEN -x ELSE x
InRange(x) == Abs(x) <= MaxAbs
Nodes(h) == 1..Len(h)

(***************************************************************************)
(* f64::powf on the modelled numbers.  The result is exact when it is an   *)
(* integer of magnitude at most MaxAbs; every other result (a fraction, an *)
(* infinity, a larger number) is reported as Unrep.                        *)
(***************************************************************************)
Unrep == MaxAbs + 1

RECURSIVE PowNat(_, _)
PowNat(x, e) ==
    IF e = 0 THEN 1
    ELSE LET p == PowNat(x, e - 1)
         IN IF p = Unrep \/ ~InRange(x * p) THEN Unrep ELSE x * p

powf(x, e) ==
    IF e >= 0 THEN PowNat(x, e)
    ELSE IF x = 1 THEN 1
    ELSE IF x = -1 THEN PowNat(-1, -e)
    ELSE Unrep

max(x, y) == IF x >= y THEN x ELSE y

(***************************************************************************)
(* Value::new and the accessors.                                           *)
(***************************************************************************)
new(h, data, children, op) ==
    Append(h, [data |-> data, grad |-> 0, prev |-> children, op |-> op])

lvalue(h, v) == h[v].prev[1]
rvalue(h, v) == h[v].prev[2]

\* add_grad with `=` for `+=`.
add_grad_overwriting(h, v, g) == [h EXCEPT ![v].grad = g]
add_grad(h, v, g) == [h EXCEPT ![v].grad = @ + g]

set_grad(h, v, g) == [h EXCEPT ![v].grad = g]

\* set_data writing the other field.
set_data_into_grad(h, v, d) == [h EXCEPT ![v].grad = d]
set_data(h, v, d) == [h EXCEPT ![v].data = d]

(***************************************************************************)
(* Unary builders.  Each returns the heap with the new node appended; the  *)
(* result Value is the last index of the returned heap.                    *)
(***************************************************************************)
pow(h, a, k) == new(h, powf(h[a].data, k), <<a>>, "Pow")
relu(h, a) == new(h, max(h[a].data, 0), <<a>>, "ReLU")

(***************************************************************************)
(* impl Add: the six operand shapes.  V is an owned Value, R a &Value, S   *)
(* an f64 scalar.                                                          *)
(***************************************************************************)
AddVV(h, a, b) == new(h, h[a].data + h[b].data, <<a, b>>, "Add")
AddVS(h, a, s) == LET h1 == new(h, s, <<>>, "None") IN AddVV(h1, a, Len(h1))
AddSV(h, s, b) == LET h1 == new(h, s, <<>>, "None") IN AddVV(h1, Len(h1), b)
AddRR(h, a, b) == AddVV(h, a, b)
AddRS(h, a, s) == LET h1 == new(h, s, <<>>, "None") IN AddRR(h1, a, Len(h1))
AddSR(h, s, b) == AddRS(h, b, s)

(***************************************************************************)
(* impl Mul: the six operand shapes.                                       *)
(***************************************************************************)
MulVV(h, a, b) == new(h, h[a].data * h[b].data, <<a, b>>, "Mul")
MulVS(h, a, s) == LET h1 == new(h, s, <<>>, "None") IN MulVV(h1, a, Len(h1))
MulSV(h, s, b) == MulVS(h, b, s)
MulRR(h, a, b) == MulVV(h, a, b)
MulRS(h, a, s) == LET h1 == new(h, s, <<>>, "None") IN MulRR(h1, a, Len(h1))
MulSR(h, s, b) == MulRS(h, b, s)

(***************************************************************************)
(* impl Neg, impl Sub (node - node), impl Div.                             *)
(***************************************************************************)
NegV(h, a) == MulVS(h, a, -1)
NegR(h, a) == MulRS(h, a, -1)
\* sub with its operands exchanged.
SubVV_exchanged(h, a, b) == LET h1 == NegV(h, a) IN AddVV(h1, b, Len(h1))
SubVV(h, a, b) == LET h1 == NegV(h, b) IN AddVV(h1, a, Len(h1))
SubRR(h, a, b) == LET h1 == NegR(h, b) IN AddRR(h1, a, Len(h1))
DivVV(h, a, b) == LET h1 == pow(h, b, -1) IN MulVV(h1, a, Len(h1))

(***************************************************************************)
(* Value::backward: the local-gradient step of one node.                   *)
(***************************************************************************)
backward_prev(h, v) ==
    IF h[v].op = "Add" THEN
        LET h1 == add_grad(h, lvalue(h, v), h[v].grad)
        IN add_grad(h1, rvalue(h1, v), h1[v].grad)
    ELSE IF h[v].op = "Mul" THEN
        LET lval == lvalue(h, v)
            rval == rvalue(h, v)
            h1 == add_grad(h, lval, h[v].grad * h[rval].data)
        IN add_grad(h1, rval, h1[v].grad * h1[lval].data)
    ELSE IF h[v].op = "Pow" THEN
        LET lv == lvalue(h, v)
            lval == h[lv].data
        IN add_grad(h, lv, h[v].grad * (lval * powf(h[v].data, lval - 1)))
    ELSE IF h[v].op = "ReLU" THEN
        LET lv == lvalue(h, v)
        IN IF h[v].grad > 0 THEN add_grad(h, lv, h[v].grad) ELSE h
    ELSE h

(***************************************************************************)
(* Value::backward: the depth-first topological sort.  st is the pair of   *)
(* the order built so far (topo) and the visited set (set).                *)
(***************************************************************************)
RECURSIVE topological_sort(_, _, _)
RECURSIVE VisitChildren(_, _, _, _)

\* The sort pushing a node before its parents are visited.
topological_sort_preorder(h, v, st) ==
    IF v \in st.set THEN st
    ELSE VisitChildren(h, h[v].prev, 1,
                       [topo |-> Append(st.topo, v), set |-> st.set \cup {v}])

topological_sort(h, v, st) ==
    IF v \in st.set THEN st
    ELSE LET st1 == [st EXCEPT !.set = @ \cup {v}]
             st2 == VisitChildren(h, h[v].prev, 1, st1)
         IN [st2 EXCEPT !.topo = Append(@, v)]

VisitChildren(h, children, i, st) ==
    IF i > Len(children) THEN st
    ELSE VisitChildren(h, children, i + 1, topological_sort(h, children[i], st))

TopoOf(h, r) == topological_sort(h, r, [topo |-> <<>>, set |-> {}]).topo

(***************************************************************************)
(* Value::backward: seed the root, then run the steps over the order       *)
(* reversed.  ReversePass also returns the nodes in the order in which     *)
(* backward_prev was called on them.                                       *)
(***************************************************************************)
RECURSIVE ReversePass(_, _, _, _)
ReversePass(h, topo, i, applied) ==
    IF i = 0 THEN [heap |-> h, applied |-> applied]
    ELSE ReversePass(backward_prev(h, topo[i]), topo, i - 1, Append(applied, topo[i]))

\* The seed added to the root's grad, and the seed left out.
seed_accumulating(h, r) == [h EXCEPT ![r].grad = @ + 1]
seed_skipped(h, r) == h
seed(h, r) == [h EXCEPT ![r].grad = 1]

backward_run(h, r) ==
    LET topo == TopoOf(h, r)
    IN ReversePass(seed(h, r), topo, Len(topo), <<>>)

backward(h, r) == backward_run(h, r).heap

(***************************************************************************)
(* What the model can represent: every number of the heap is in range, and *)
(* no Pow step of a backward pass from r asks powf for a number that is    *)
(* not.                                                                    *)
(***************************************************************************)
AllInRange(h) == \A n \in Nodes(h) : InRange(h[n].data) /\ InRange(h[n].grad)

Reach(h, r) == topological_sort(h, r, [topo |-> <<>>, set |-> {}]).set

PowStepsExact(h, r) ==
    \A v \in Reach(h, r) :
        h[v].op = "Pow" => powf(h[v].data, h[lvalue(h, v)].data - 1) # Unrep

GradsOf(h) == [n \in Nodes(h) |-> h[n].grad]

(***************************************************************************)
(* The record of the last operation: its kind, its operands (nodes and     *)
(* scalars, in the order written), the node it returned or acted on, and   *)
(* for backward the grads before the call, the order the sort built and    *)
(* the order of the local-gradient steps.                                  *)
(***************************************************************************)
Op(kind, args, res) ==
    [kind |-> kind, args |-> args, res |-> res,
     pre |-> <<>>, topo |-> <<>>, applied |-> <<>>]

Pad(pa, h) == pa \o [i \in 1..(Len(h) - Len(pa)) |-> 0]

\* A builder call whose result heap is h2.
Called == calls < MaxCalls /\ calls' = calls + 1

\* A builder call whose result heap is h2; pa is the exponent record of h2.
BuiltPow(kind, args, h2, pa, N) ==
    /\ Called
    /\ Len(h2) <= N
    /\ AllInRange(h2)
    /\ heap' = h2
    /\ powArg' = pa
    /\ last' = Op(kind, args, Len(h2))
    /\ UNCHANGED params

Built(kind, args, h2, N) == BuiltPow(kind, args, h2, Pad(powArg, h2), N)

(***************************************************************************)
(* The operations of the engine.  D is the set the f64 arguments are drawn *)
(* from and N the node bound of the specification that uses the action.    *)
(***************************************************************************)
NewLeaf(D, N) ==
    \E d \in D : Built("new", <<d>>, new(heap, d, <<>>, "None"), N) /\ UNCHANGED pc

DoPow(N) ==
    \E a \in Nodes(heap), k \in Exponents :
        /\ BuiltPow("pow", <<a, k>>, pow(heap, a, k), Append(powArg, k), N)
        /\ UNCHANGED pc

DoRelu(N) ==
    \E a \in Nodes(heap) : Built("relu", <<a>>, relu(heap, a), N) /\ UNCHANGED pc

DoAddVV(N) ==
    \E a, b \in Nodes(heap) :
        Built("AddVV", <<a, b>>, AddVV(heap, a, b), N) /\ UNCHANGED pc
DoAddVS(N) ==
    \E a \in Nodes(heap), s \in Scalars :
        Built("AddVS", <<a, s>>, AddVS(heap, a, s), N) /\ UNCHANGED pc
DoAddSV(N) ==
    \E s \in Scalars, b \in Nodes(heap) :
        Built("AddSV", <<s, b>>, AddSV(heap, s, b), N) /\ UNCHANGED pc
DoAddRR(N) ==
    \E a, b \in Nodes(heap) :
        Built("AddRR", <<a, b>>, AddRR(heap, a, b), N) /\ UNCHANGED pc
DoAddRS(N) ==
    \E a \in Nodes(heap), s \in Scalars :
        Built("AddRS", <<a, s>>, AddRS(heap, a, s), N) /\ UNCHANGED pc
DoAddSR(N) ==
    \E s \in Scalars, b \in Nodes(heap) :
        Built("AddSR", <<s, b>>, AddSR(heap, s, b), N) /\ UNCHANGED pc

DoMulVV(N) ==
    \E a, b \in Nodes(heap) :
        Built("MulVV", <<a, b>>, MulVV(heap, a, b), N) /\ UNCHANGED pc
DoMulVS(N) ==
    \E a \in Nodes(heap), s \in Scalars :
        Built("MulVS", <<a, s>>, MulVS(heap, a, s), N) /\ UNCHANGED pc
DoMulSV(N) ==
    \E s \in Scalars, b \in Nodes(heap) :
        Built("MulSV", <<s, b>>, MulSV(heap, s, b), N) /\ UNCHANGED pc
DoMulRR(N) ==
    \E a, b \in Nodes(heap) :
        Built("MulRR", <<a, b>>, MulRR(heap, a, b), N) /\ UNCHANGED pc
DoMulRS(N) ==
    \E a \in Nodes(heap), s \in Scalars :
        Built("MulRS", <<a, s>>, MulRS(heap, a, s), N) /\ UNCHANGED pc
DoMulSR(N) ==
    \E s \in Scalars, b \in Nodes(heap) :
        Built("MulSR", <<s, b>>, MulSR(heap, s, b), N) /\ UNCHANGED pc

DoNegV(N) ==
    \E a \in Nodes(heap) : Built("NegV", <<a>>, NegV(heap, a), N) /\ UNCHANGED pc
DoNegR(N) ==
    \E a \in Nodes(heap) : Built("NegR", <<a>>, NegR(heap, a), N) /\ UNCHANGED pc
DoSubVV(N) ==
    \E a, b \in Nodes(heap) :
        Built("SubVV", <<a, b>>, SubVV(heap, a, b), N) /\ UNCHANGED pc
DoSubRR(N) ==
    \E a, b \in Nodes(heap) :
        Built("SubRR", <<a, b>>, SubRR(heap, a, b), N) /\ UNCHANGED pc
DoDivVV(N) ==
    \E a, b \in Nodes(heap) :
        /\ BuiltPow("DivVV", <<a, b>>, DivVV(heap, a, b), powArg \o <<-1, 0>>, N)
        /\ UNCHANGED pc

SetData ==
    \E n \in Nodes(heap), d \in DataVals :
        /\ Called
        /\ heap' = set_data(heap, n, d)
        /\ last' = Op("set_data", <<n, d>>, n)
        /\ UNCHANGED <<powArg, params, pc>>

SetGrad ==
    \E n \in Nodes(heap), g \in GradVals :
        /\ Called
        /\ heap' = set_grad(heap, n, g)
        /\ last' = Op("set_grad", <<n, g>>, n)
        /\ UNCHANGED <<powArg, params, pc>>

\* backward called on r.
BackwardOn(r) ==
    /\ Called
    /\ PowStepsExact(heap, r)
    /\ LET run == backward_run(heap, r)
       IN /\ AllInRange(run.heap)
          /\ heap' = run.heap
          /\ last' = [kind |-> "backward", args |-> <<r>>, res |-> r,
                      pre |-> GradsOf(heap), topo |-> TopoOf(heap, r),
                      applied |-> run.applied]
    /\ UNCHANGED <<powArg, params>>

Backward == \E r \in Nodes(heap) : BackwardOn(r) /\ UNCHANGED pc

(***************************************************************************)
(* The engine: graphs of Add, Mul and ReLU nodes over leaves, explicit     *)
(* writes of data and grad, and backward from any node.                    *)
(***************************************************************************)
Init ==
    /\ heap = <<>>
    /\ powArg = <<>>
    /\ last = Op("init", <<>>, 0)
    /\ calls = 0
    /\ params = <<>>
    /\ pc = [at |-> "free", base |-> 0]

Next ==
    \/ NewLeaf(LeafData, MaxNodes)
    \/ DoAddVV(MaxNodes)
    \/ DoMulVV(MaxNodes)
    \/ DoRelu(MaxNodes)
    \/ SetData
    \/ SetGrad
    \/ Backward

Spec == Init /\ [][Next]_vars

(***************************************************************************)
(* The local-gradient rules: Pow and ReLU nodes over leaves of either      *)
(* sign, Mul to give a node a negative upstream gradient.                  *)
(***************************************************************************)
NextRules ==
    \/ NewLeaf(SignedData, MaxNodes)
    \/ DoPow(MaxNodes)
    \/ DoRelu(MaxNodes)
    \/ DoMulVV(MaxNodes)
    \/ Backward

SpecRules == Init /\ [][NextRules]_vars

(***************************************************************************)
(* The operand shapes of + and *.                                          *)
(***************************************************************************)
NextShapes ==
    \/ NewLeaf(LeafData, MaxNodes)
    \/ DoAddVV(MaxNodes)
    \/ DoAddVS(MaxNodes)
    \/ DoAddSV(MaxNodes)
    \/ DoAddRR(MaxNodes)
    \/ DoAddRS(MaxNodes)
    \/ DoAddSR(MaxNodes)
    \/ DoMulVV(MaxNodes)
    \/ DoMulVS(MaxNodes)
    \/ DoMulSV(MaxNodes)
    \/ DoMulRR(MaxNodes)
    \/ DoMulRS(MaxNodes)
    \/ DoMulSR(MaxNodes)

SpecShapes == Init /\ [][NextShapes]_vars

(***************************************************************************)
(* The derived operators neg, sub and div, and backward over their graphs. *)
(***************************************************************************)
NextDerived ==
    \/ NewLeaf(SignedData, MaxDerivedNodes)
    \/ DoNegV(MaxDerivedNodes)
    \/ DoNegR(MaxDerivedNodes)
    \/ DoSubVV(MaxDerivedNodes)
    \/ DoSubRR(MaxDerivedNodes)
    \/ DoDivVV(MaxDerivedNodes)
    \/ Backward

SpecDerived == Init /\ [][NextDerived]_vars

(***************************************************************************)
(* The training loop of main: each iteration builds a fresh graph over the *)
(* retained leaves (forward), zeroes their grads, calls backward on the    *)
(* new root and overwrites their data.  The nodes of earlier iterations    *)
(* stay in the heap, with the grads the earlier passes left in them.       *)
(***************************************************************************)
RECURSIVE zero_grad(_, _, _)
zero_grad(h, ps, i) ==
    IF i > Len(ps) THEN h ELSE zero_grad(set_grad(h, ps[i], 0), ps, i + 1)

RECURSIVE update(_, _, _, _)
update(h, ps, ds, i) ==
    IF i > Len(ps) THEN h ELSE update(set_data(h, ps[i], ds[i]), ps, ds, i + 1)

ForwardKinds == {"MulRR", "AddVV", "AddRS", "pow"}

InitTrain ==
    /\ \E ds \in {<<d>> : d \in TrainData} \cup (TrainData \X TrainData) :
          /\ heap = [i \in 1..Len(ds) |->
                        [data |-> ds[i], grad |-> 0, prev |-> <<>>, op |-> "None"]]
          /\ powArg = [i \in 1..Len(ds) |-> 0]
          /\ params = [i \in 1..Len(ds) |-> i]
    /\ last = Op("init", <<>>, 0)
    /\ calls = 0
    /\ pc = [at |-> "forward", base |-> Len(heap)]

\* The Values an iteration has in hand: the retained leaves and the nodes it
\* has built itself.
InHand == {params[i] : i \in 1..Len(params)} \cup (pc.base + 1)..Len(heap)

TrainMul ==
    pc.at = "forward" /\ DoMulRR(MaxTrainNodes) /\ last'.args \in InHand \X InHand
TrainAdd ==
    pc.at = "forward" /\ DoAddVV(MaxTrainNodes) /\ last'.args \in InHand \X InHand
TrainAddScalar ==
    pc.at = "forward" /\ DoAddRS(MaxTrainNodes) /\ last'.args[1] \in InHand
TrainPow ==
    pc.at = "forward" /\ DoPow(MaxTrainNodes) /\ last'.args[1] \in InHand

\* mlp.zero_grad(), once the forward pass has built the loss.
TrainZeroGrad ==
    /\ pc.at = "forward"
    /\ last.kind \in ForwardKinds
    /\ Called
    /\ heap' = zero_grad(heap, params, 1)
    /\ last' = Op("zero_grad", params, last.res)
    /\ pc' = [pc EXCEPT !.at = "zeroed"]
    /\ UNCHANGED <<powArg, params>>

\* loss.backward()
TrainBackward ==
    /\ pc.at = "zeroed"
    /\ BackwardOn(last.res)
    /\ pc' = [pc EXCEPT !.at = "update"]

\* for p in mlp.parameters() { p.set_data(..) }: the new values are drawn from
\* TrainData, and the iteration ends.
TrainUpdate ==
    /\ pc.at = "update"
    /\ \E ds \in [1..Len(params) -> TrainData] :
          heap' = update(heap, params, ds, 1)
    /\ last' = Op("update", params, last.res)
    /\ calls' = 0
    /\ pc' = [at |-> "forward", base |-> Len(heap)]
    /\ UNCHANGED <<powArg, params>>

NextTrain ==
    \/ TrainMul
    \/ TrainAdd
    \/ TrainAddScalar
    \/ TrainPow
    \/ TrainZeroGrad
    \/ TrainBackward
    \/ TrainUpdate

SpecTrain == InitTrain /\ [][NextTrain]_vars

(***************************************************************************)
(* Definitions the properties are stated with.  They do not use the sort   *)
(* or the pass of backward.                                                *)
(***************************************************************************)
Parents(h, v) == {h[v].prev[i] : i \in 1..Len(h[v].prev)}

RECURSIVE Closure(_, _)
Closure(h, S) ==
    LET T == S \cup UNION {Parents(h, v) : v \in S}
    IN IF T = S THEN S ELSE Closure(h, T)

\* The nodes reachable from r via parents, r included.
Ancestors(h, r) == Closure(h, {r})

IsLeaf(h, v) == h[v].op = "None" /\ h[v].prev = <<>>

\* The derivative of node y with respect to its i-th operand, by the rules of
\* calculus: 1 for a sum, the other factor for a product, k * a^(k-1) for a
\* power with exponent k, and the step function of the output for ReLU.
Local(h, pa, y, i) ==
    IF h[y].op = "Add" THEN 1
    ELSE IF h[y].op = "Mul" THEN h[h[y].prev[3 - i]].data
    ELSE IF h[y].op = "Pow" THEN pa[y] * powf(h[h[y].prev[1]].data, pa[y] - 1)
    ELSE IF h[y].op = "ReLU" THEN (IF h[y].data > 0 THEN 1 ELSE 0)
    ELSE 0

\* The partial derivative of r with respect to n: the sum over all parent-paths
\* from r to n of the product of the local derivatives along the path.
RECURSIVE Deriv(_, _, _, _)
RECURSIVE DerivVia(_, _, _, _, _)
Deriv(h, pa, r, n) == IF r = n THEN 1 ELSE DerivVia(h, pa, r, n, 1)
DerivVia(h, pa, r, n, i) ==
    IF i > Len(h[r].prev) THEN 0
    ELSE Local(h, pa, r, i) * Deriv(h, pa, h[r].prev[i], n)
         + DerivVia(h, pa, r, n, i + 1)

root == last.res
AfterBackward == last.kind = "backward"
\* The last operation was backward, called with grad 0 in every node it reaches.
AfterFreshBackward ==
    AfterBackward /\ \A n \in Ancestors(heap, root) : last.pre[n] = 0

Pos(seq, v) == CHOOSE i \in 1..Len(seq) : seq[i] = v
Occurrences(seq, v) == Cardinality({i \in 1..Len(seq) : seq[i] = v})

\* The parents of r that r reaches by single edges only.
DirectOnly(h, r) ==
    {n \in Parents(h, r) :
        \A p \in Parents(h, r) : p # n => n \notin Ancestors(h, p)}

\* The step is a second backward call on the root of a backward call that
\* started from grad 0 everywhere it reaches.
SecondBackward ==
    /\ AfterFreshBackward
    /\ last'.kind = "backward"
    /\ last'.res = last.res
    /\ calls' = calls + 1

AddMulOnly(h, r) == \A v \in Ancestors(h, r) : h[v].op \in {"None", "Add", "Mul"}

(***************************************************************************)
(* C1.  After backward(r) on a graph of leaves, Add and Mul nodes whose    *)
(* grads were all 0, every node n reachable from r holds in grad the       *)
(* partial derivative of r with respect to n (the sum over all paths from  *)
(* r to n of the products of the local derivatives), diamonds included.    *)
(***************************************************************************)
C1_GradIsDerivative ==
    (AfterFreshBackward /\ AddMulOnly(heap, root)) =>
        \A n \in Ancestors(heap, root) :
            heap[n].grad = Deriv(heap, powArg, root, n)

\* backward(y) was called for x = 3, y = x*x + x: y.data = 12 and x.grad = 7.
C1_Witness ==
    /\ AfterFreshBackward
    /\ Len(heap) = 3
    /\ IsLeaf(heap, 1) /\ heap[1].data = 3
    /\ heap[2].op = "Mul" /\ heap[2].prev = <<1, 1>>
    /\ heap[3].op = "Add" /\ heap[3].prev = <<2, 1>>
    /\ root = 3
    /\ heap[3].data = 12
    /\ heap[1].grad = 7

(***************************************************************************)
(* C2.  After backward(pow(a, k)) with fresh grads, a.grad is              *)
(* k * a.data^(k-1), k being the exponent given to pow.                    *)
(***************************************************************************)
C2_PowRule ==
    (AfterFreshBackward /\ heap[root].op = "Pow" /\ IsLeaf(heap, heap[root].prev[1])) =>
        LET a == heap[root].prev[1]
            k == powArg[root]
        IN heap[a].grad = k * powf(heap[a].data, k - 1)

(***************************************************************************)
(* C3.  After backward(relu(a)), a.grad has grown by the root's grad (1)   *)
(* when the ReLU node's data is > 0 and not at all otherwise.              *)
(***************************************************************************)
C3_ReluRule ==
    (AfterBackward /\ heap[root].op = "ReLU") =>
        LET a == heap[root].prev[1]
        IN heap[a].grad = last.pre[a] + (IF heap[root].data > 0 THEN 1 ELSE 0)

Zeroed(h) == [n \in Nodes(h) |-> [h[n] EXCEPT !.grad = 0]]

(***************************************************************************)
(* C4 as stated.  A second backward(y) in a row, after a first one that    *)
(* started from grad 0, leaves every node reachable from y other than y    *)
(* with twice the grad it had, and y.grad is 1 after each call.            *)
(***************************************************************************)
C4_AllInteriorDoubled ==
    [][SecondBackward =>
          /\ heap[root].grad = 1
          /\ heap'[root].grad = 1
          /\ \A n \in Ancestors(heap, root) \ {root} :
                heap'[n].grad = 2 * heap[n].grad]_vars

(***************************************************************************)
(* C4 as amended.  A second backward(y) in a row, after a first one that   *)
(* started from grad 0, leaves with twice its grad every parent of y that  *)
(* y reaches by single edges only, and y.grad is 1 after each call.        *)
(***************************************************************************)
C4_DirectParentsDoubled ==
    [][SecondBackward =>
          /\ heap[root].grad = 1
          /\ heap'[root].grad = 1
          /\ \A n \in DirectOnly(heap, root) :
                heap'[n].grad = 2 * heap[n].grad]_vars

\* The state after the second of two calls in a row: a direct parent holds twice
\* its nonzero grad, a deeper node does not.
C4_Witness ==
    /\ AfterBackward
    /\ last.pre = GradsOf(backward(Zeroed(heap), root))
    /\ \E n \in DirectOnly(heap, root) :
          last.pre[n] # 0 /\ heap[n].grad = 2 * last.pre[n]
    /\ \E m \in Ancestors(heap, root) \ {root} :
          heap[m].grad # 2 * last.pre[m]

Retained == {params[i] : i \in 1..Len(params)}

(***************************************************************************)
(* C5.  After every step of a training loop (fresh graph over the retained *)
(* leaves, their grads set to 0, backward once on the new root), each      *)
(* retained leaf's grad is the derivative of that step's root with respect *)
(* to it.                                                                  *)
(***************************************************************************)
C5_StepGradIsDerivative ==
    pc.at = "update" =>
        \A p \in Retained : heap[p].grad = Deriv(heap, powArg, root, p)

\* The same on the steps whose graph holds Add and Mul nodes only.
C5_OnAddMulGraphs ==
    (pc.at = "update" /\ AddMulOnly(heap, root)) =>
        \A p \in Retained : heap[p].grad = Deriv(heap, powArg, root, p)

(***************************************************************************)
(* C6.  When backward(r) returns, r.grad is 1 whatever it was before, and  *)
(* when r is a leaf no other node's grad has changed.                      *)
(***************************************************************************)
C6_RootGradOverwritten ==
    AfterBackward =>
        /\ heap[root].grad = 1
        /\ IsLeaf(heap, root) =>
              \A n \in Nodes(heap) \ {root} : heap[n].grad = last.pre[n]

\* backward was called on an op node whose grad was 5.
C6_Witness ==
    /\ AfterBackward
    /\ ~IsLeaf(heap, root)
    /\ last.pre[root] = 5
    /\ heap[root].grad = 1

NodeNode == {"AddVV", "AddRR", "MulVV", "MulRR"}
NodeScalar == {"AddVS", "AddRS", "MulVS", "MulRS"}
ScalarNode == {"AddSV", "AddSR", "MulSV", "MulSR"}

LiftedLeaf(h, l, s) == IsLeaf(h, l) /\ h[l].data = s /\ l = Len(h) - 1

(***************************************************************************)
(* C7.  The node built by + or * has the parents [left operand, right      *)
(* operand] in the order written, a scalar operand being a fresh leaf      *)
(* holding the scalar, in the scalar's position.                           *)
(***************************************************************************)
C7_ParentsInWrittenOrder ==
    /\ last.kind \in NodeNode => heap[root].prev = last.args
    /\ last.kind \in NodeScalar =>
          /\ Len(heap[root].prev) = 2
          /\ heap[root].prev[1] = last.args[1]
          /\ LiftedLeaf(heap, heap[root].prev[2], last.args[2])
    /\ last.kind \in ScalarNode =>
          /\ Len(heap[root].prev) = 2
          /\ LiftedLeaf(heap, heap[root].prev[1], last.args[1])
          /\ heap[root].prev[2] = last.args[2]

(***************************************************************************)
(* C8.  The order backward(r) sorts holds every node reachable from r      *)
(* exactly once (nodes told apart by reference), each node after all its   *)
(* parents; the reverse pass applies each node's rule exactly once, after  *)
(* the rules of all its children in the sub-DAG.                           *)
(***************************************************************************)
C8_TopologicalOrder ==
    AfterBackward =>
        LET reach == Ancestors(heap, root)
            topo == last.topo
            applied == last.applied
        IN /\ {topo[i] : i \in 1..Len(topo)} = reach
           /\ \A v \in reach : Occurrences(topo, v) = 1
           /\ \A v \in reach : \A p \in Parents(heap, v) : Pos(topo, p) < Pos(topo, v)
           /\ {applied[i] : i \in 1..Len(applied)} = reach
           /\ \A v \in reach : Occurrences(applied, v) = 1
           /\ \A c \in reach : \A v \in Parents(heap, c) :
                 Pos(applied, c) < Pos(applied, v)

\* backward was called on the diamond y = m + x, m = x * x: x is sorted once,
\* before m and y, and its rule is applied last.
C8_Witness ==
    /\ AfterBackward
    /\ Len(heap) = 3
    /\ IsLeaf(heap, 1)
    /\ heap[2].prev = <<1, 1>>
    /\ heap[3].prev = <<2, 1>>
    /\ last.topo = <<1, 2, 3>>
    /\ last.applied = <<3, 2, 1>>

OpTags == {"None", "Add", "Mul", "Exp", "Pow", "ReLU", "TanH"}

IsNeg(h, n, x) ==
    /\ h[n].op = "Mul"
    /\ Len(h[n].prev) = 2
    /\ h[n].prev[1] = x
    /\ IsLeaf(h, h[n].prev[2])
    /\ h[h[n].prev[2]].data = -1

IsSub(h, y, a, b) ==
    /\ h[y].op = "Add"
    /\ Len(h[y].prev) = 2
    /\ h[y].prev[1] = a
    /\ IsNeg(h, h[y].prev[2], b)

IsDiv(h, pa, y, a, b) ==
    /\ h[y].op = "Mul"
    /\ Len(h[y].prev) = 2
    /\ h[y].prev[1] = a
    /\ LET p == h[y].prev[2]
       IN /\ h[p].op = "Pow"
          /\ h[p].prev = <<b>>
          /\ pa[p] = -1
          /\ h[p].data = powf(h[b].data, -1)

\* a and b are distinct, neither reaches the other, and neither reaches the
\* leaf -1 that neg(b) allocates.
Independent(h, y, a, b) ==
    LET l == h[h[y].prev[2]].prev[2]
    IN /\ a # b
       /\ a \notin Ancestors(h, b)
       /\ b \notin Ancestors(h, a)
       /\ l \notin Ancestors(h, a) \cup Ancestors(h, b)

(***************************************************************************)
(* C9.  Every op tag is in the closed set; neg(x) is a Mul node with       *)
(* parents [x, leaf(-1)], sub(a, b) an Add node with parents [a, neg(b)],  *)
(* div(a, b) a Mul node with parents [a, pow(b, -1)]; and after            *)
(* backward(a - b) with fresh grads, for distinct a and b neither of which *)
(* is reachable from the other, a.grad = 1 and b.grad = -1.                *)
(***************************************************************************)
C9_DerivedOperators ==
    /\ \A n \in Nodes(heap) : heap[n].op \in OpTags
    /\ last.kind \in {"NegV", "NegR"} => IsNeg(heap, root, last.args[1])
    /\ last.kind \in {"SubVV", "SubRR"} => IsSub(heap, root, last.args[1], last.args[2])
    /\ last.kind = "DivVV" => IsDiv(heap, powArg, root, last.args[1], last.args[2])
    /\ AfterFreshBackward =>
          \A a, b \in Nodes(heap) :
              (IsSub(heap, root, a, b) /\ Independent(heap, root, a, b)) =>
                  heap[a].grad = 1 /\ heap[b].grad = -1

\* backward was called on a - b for two leaves a and b.
C9_Witness ==
    /\ AfterFreshBackward
    /\ \E a, b \in Nodes(heap) :
          /\ IsSub(heap, root, a, b)
          /\ Independent(heap, root, a, b)
          /\ IsLeaf(heap, a) /\ IsLeaf(heap, b)
          /\ heap[a].grad = 1 /\ heap[b].grad = -1

SameBut(h1, h2, n, field) ==
    /\ field # "data" => h2[n].data = h1[n].data
    /\ field # "grad" => h2[n].grad = h1[n].grad
    /\ h2[n].op = h1[n].op
    /\ h2[n].prev = h1[n].prev

(***************************************************************************)
(* C10.  backward(r) leaves the data, op tag and parents of every node as  *)
(* they were, and the grad of every node not reachable from r;             *)
(* set_data(n, v) sets n.data to v and leaves every other field of every   *)
(* node as it was, the data of the nodes that have n as a parent included. *)
(***************************************************************************)
C10_Frame ==
    [][/\ last'.kind = "backward" =>
             /\ Len(heap') = Len(heap)
             /\ \A n \in Nodes(heap) :
                   IF n \in Ancestors(heap, last'.res)
                   THEN SameBut(heap, heap', n, "grad")
                   ELSE SameBut(heap, heap', n, "none")
       /\ last'.kind = "set_data" =>
             /\ Len(heap') = Len(heap)
             /\ heap'[last'.res].data = last'.args[2]
             /\ \A n \in Nodes(heap) :
                   IF n = last'.res
                   THEN SameBut(heap, heap', n, "data")
                   ELSE SameBut(heap, heap', n, "none")]_vars

\* The data a node would have if it were recomputed from its parents.
Recomputed(h, v) ==
    IF h[v].op = "Add" THEN h[h[v].prev[1]].data + h[h[v].prev[2]].data
    ELSE IF h[v].op = "Mul" THEN h[h[v].prev[1]].data * h[h[v].prev[2]].data
    ELSE IF h[v].op = "ReLU" THEN max(h[h[v].prev[1]].data, 0)
    ELSE h[v].data

\* backward has run on a graph in which a node outside its reach holds a grad
\* and a node holds data that a set_data on its parent has made stale.
C10_Witness ==
    /\ AfterBackward
    /\ \E n \in Nodes(heap) \ Ancestors(heap, root) : heap[n].grad = 5
    /\ \E v \in Nodes(heap) : heap[v].data # Recomputed(heap, v)

=============================================================================
